---- MODULE Spec2Model ----
(***************************************************************************)
(* Model of run.py, the command-line adapter around the nataly chart       *)
(* library: one invocation of main(argv), step by step.                    *)
(*                                                                         *)
(* Conventions                                                             *)
(*  - Text that the code inspects character by character (--tz, --person,  *)
(*    --ephe-path, NATALY_EPHE_PATH, numeric tokens) is a sequence of      *)
(*    one-character strings; text it only passes on is a TLA+ string.      *)
(*  - A Python Optional is a sequence of length 0 (None) or 1 (Some(x)).   *)
(*  - argv ranges over invocations without -h/--help (which prints the     *)
(*    usage and leaves through SystemExit(0) before the pipeline starts).  *)
(***************************************************************************)
EXTENDS Integers, Sequences, FiniteSets, TLC

VARIABLES
    argv,        \* the command line, as the flags' raw values
    pc,          \* position of main
    inp,         \* Optional PluginInput
    environ,     \* what os.getenv("NATALY_EPHE_PATH") returned, once read
    epheDirOk,   \* whether <plugin dir>/ephe exists and is a directory, once read
    ephe_path,   \* local of _build_chart, once resolved
    chart,       \* Optional chart object returned by NatalChart
    chartArgs,   \* Optional keyword arguments NatalChart was called with
    dt_utc_iso,  \* Optional ISO string of to_utc's result
    summary,     \* Optional ChartSummaryOut
    trace,       \* the steps of the pipeline entered so far, in order
    failedAt,    \* the step that raised, or "none"
    stdout,      \* lines written to standard output
    stderr,      \* lines written to standard error
    exitCode,    \* Optional process exit code
    exitVia      \* "running", "return" (main returned) or "SystemExit" (raised through main)

vars == <<argv, pc, inp, environ, epheDirOk, ephe_path, chart, chartArgs, dt_utc_iso,
          summary, trace, failedAt, stdout, stderr, exitCode, exitVia>>

----------------------------------------------------------------------------
(* Optionals *)

None == <<>>

Some(x) == <<x>>

IsNone(o) == Len(o) = 0

Get(o) == o[1]

----------------------------------------------------------------------------
(* Bounds of the model *)

\* The longest aspect list the library returns in the model (one past the
\* text rendering's cut-off at the written value).
MaxAspects == 51

\* summary.aspects[:50] in _print_text
MaxTextAspects == 50

\* The longest house list the library returns in the model.
MaxHouses == 2

----------------------------------------------------------------------------
(* Characters and str.strip() *)

Whitespace == {" ", "\t", "\n"}

Digits == {"0", "1", "2", "3", "4", "5", "6", "7", "8", "9"}

DigitVal(c) ==
    CASE c = "0" -> 0 [] c = "1" -> 1 [] c = "2" -> 2 [] c = "3" -> 3 [] c = "4" -> 4
      [] c = "5" -> 5 [] c = "6" -> 6 [] c = "7" -> 7 [] c = "8" -> 8 [] c = "9" -> 9

RECURSIVE LStrip(_)
LStrip(s) ==
    IF s # <<>> /\ Head(s) \in Whitespace THEN LStrip(Tail(s)) ELSE s

RECURSIVE RStrip(_)
RStrip(s) ==
    IF s # <<>> /\ s[Len(s)] \in Whitespace THEN RStrip(SubSeq(s, 1, Len(s) - 1)) ELSE s

\* str.strip()
Strip(s) == RStrip(LStrip(s))

\* A regular expression's "$": the end of the string, or just before a final newline.
AtEnd(s, i) == i = Len(s) + 1 \/ (i = Len(s) /\ s[i] = "\n")

AllDigits(s, from, to) == \A i \in from..to : s[i] \in Digits

\* faulty variant: the hour alternative 2[0-3] widened to 2\d
TzReMatchNoHourLimit(s) ==
    /\ Len(s) >= 6
    /\ s[1] \in {"+", "-"}
    /\ s[2] \in {"0", "1", "2"} /\ s[3] \in Digits
    /\ s[4] = ":"
    /\ s[5] \in {"0", "1", "2", "3", "4", "5"}
    /\ s[6] \in Digits
    /\ AtEnd(s, 7)

\* _TZ_RE.match(s): ^[+-](?:0\d|1\d|2[0-3]):[0-5]\d$
TZ_RE_match(s) ==
    /\ Len(s) >= 6
    /\ s[1] \in {"+", "-"}
    /\ \/ s[2] = "0" /\ s[3] \in Digits
       \/ s[2] = "1" /\ s[3] \in Digits
       \/ s[2] = "2" /\ s[3] \in {"0", "1", "2", "3"}
    /\ s[4] = ":"
    /\ s[5] \in {"0", "1", "2", "3", "4", "5"}
    /\ s[6] \in Digits
    /\ AtEnd(s, 7)

\* float(token) / int(token) on the decimal integer literals of the model:
\* surrounding whitespace, an optional sign, one or more digits.
RECURSIVE DigitsValue(_)
DigitsValue(s) ==
    IF s = <<>> THEN 0 ELSE 10 * DigitsValue(SubSeq(s, 1, Len(s) - 1)) + DigitVal(s[Len(s)])

ParseNumber(token) ==
    LET t == Strip(token)
        signed == t # <<>> /\ t[1] \in {"+", "-"}
        body == IF signed THEN Tail(t) ELSE t
    IN  IF body # <<>> /\ AllDigits(body, 1, Len(body))
        THEN [ok |-> TRUE, val |-> IF signed /\ t[1] = "-" THEN 0 - DigitsValue(body) ELSE DigitsValue(body)]
        ELSE [ok |-> FALSE, val |-> 0]

----------------------------------------------------------------------------
(* argparse: parser.parse_args(argv) *)

\* argparse's _negative_number_matcher: ^-\d+$|^-\d*\.\d+$
NegativeNumberLike(s) ==
    /\ Len(s) >= 2
    /\ s[1] = "-"
    /\ \/ \E e \in 2..Len(s) : AllDigits(s, 2, e) /\ AtEnd(s, e + 1)
       \/ \E d \in 2..Len(s) - 1 :
            /\ s[d] = "."
            /\ AllDigits(s, 2, d - 1)
            /\ \E e \in d + 1..Len(s) : AllDigits(s, d + 1, e) /\ AtEnd(s, e + 1)

\* argparse's _parse_optional for a token that is no registered flag, holds no "="
\* and is no prefix of a flag: whether the token is read as a flag, not as a value.
LooksLikeFlag(s) ==
    /\ s # <<>>
    /\ s[1] = "-"
    /\ Len(s) > 1
    /\ ~NegativeNumberLike(s)
    /\ \A i \in 1..Len(s) : s[i] # " "

FormatChoices == {"text", "json", "both"}

\* The outcome of parser.parse_args for the command line a: "error" (usage and
\* message on standard error, SystemExit(2)) or "ok" with the namespace.
\* The value of --tz is written either as the next token ("sep") or in the
\* same token (--tz=VALUE, "eq"); only a separate token can be taken for a flag.
ArgparseOutcome(a) ==
    IF \/ IsNone(a.person)
       \/ a.tzForm = "sep" /\ LooksLikeFlag(a.tz)
       \/ LooksLikeFlag(a.lat) \/ ~ParseNumber(a.lat).ok
       \/ LooksLikeFlag(a.lon) \/ ~ParseNumber(a.lon).ok
       \/ ~IsNone(a.format) /\ Get(a.format) \notin FormatChoices
       \/ ~IsNone(a.person) /\ LooksLikeFlag(Get(a.person))
       \/ ~IsNone(a.ephe) /\ LooksLikeFlag(Get(a.ephe))
    THEN [kind |-> "error"]
    ELSE [kind |-> "ok",
          ns |-> [person |-> Get(a.person),
                  birth |-> a.birth,
                  tz |-> a.tz,
                  lat |-> ParseNumber(a.lat).val,
                  lon |-> ParseNumber(a.lon).val,
                  house_system |-> "Placidus",
                  ephe_path |-> a.ephe,
                  format |-> IF IsNone(a.format) THEN "text" ELSE Get(a.format)]]

----------------------------------------------------------------------------
(* _parse_args after argparse *)

\* ns.ephe_path -> PluginInput.ephe_path: stripped when truthy, else None
InputEphePath(raw) ==
    IF ~IsNone(raw) /\ Get(raw) # <<>> THEN Some(Strip(Get(raw))) ELSE None

PluginInput(ns) ==
    [person |-> Strip(ns.person),
     birth |-> ns.birth,
     tz |-> Strip(ns.tz),
     lat |-> ns.lat,
     lon |-> ns.lon,
     house_system |-> ns.house_system,
     ephe_path |-> InputEphePath(ns.ephe_path),
     output_format |-> ns.format]

----------------------------------------------------------------------------
(* _resolve_ephe_path *)

DefaultEpheDir == <<"e", "p", "h", "e">>

\* "if explicit:" / "if env_val": neither None nor the empty string
Truthy(o) == ~IsNone(o) /\ Get(o) # <<>>

EnvUsable(env_val) == Truthy(env_val) /\ Strip(Get(env_val)) # <<>>

\* faulty variant: "if env_val:" without the check of env_val.strip()
resolve_ephe_path_env_unchecked(explicit, env_val, dir_ok) ==
    IF Truthy(explicit) THEN explicit
    ELSE IF Truthy(env_val) THEN Some(Strip(Get(env_val)))
    ELSE IF dir_ok THEN Some(DefaultEpheDir)
    ELSE None

resolve_ephe_path(explicit, env_val, dir_ok) ==
    IF Truthy(explicit) THEN explicit
    ELSE IF EnvUsable(env_val) THEN Some(Strip(Get(env_val)))
    ELSE IF dir_ok THEN Some(DefaultEpheDir)
    ELSE None

----------------------------------------------------------------------------
(* The chart object the library returns *)

\* What chart.get_body_by_name(name) returns when it does not raise.
LibBody(name) ==
    IF name = "Sun"
    THEN [name |-> "Sun", house |-> <<"4">>, signed_dms |-> "10Ar15", dms |-> "10.15",
          declination_dms |-> Some("+04d02"), absolute_dms |-> None]
    ELSE [name |-> "Moon", house |-> <<"?">>, signed_dms |-> "", dms |-> "22.40",
          declination_dms |-> None, absolute_dms |-> Some("202d40")]

BodyNames == <<"Sun", "Moon", "Mars">>

AspectSymbols == <<"conj", "opp">>

\* The i-th aspect of a chart; the orb text tells the aspects apart.
LibAspect(i) ==
    [body1 |-> BodyNames[(i % 3) + 1],
     symbol |-> AspectSymbols[(i % 2) + 1],
     body2 |-> BodyNames[((i + 1) % 3) + 1],
     orb_str |-> ToString(i)]

DigitChar(n) ==
    CASE n = 0 -> "0" [] n = 1 -> "1" [] n = 2 -> "2" [] n = 3 -> "3" [] n = 4 -> "4"
      [] n = 5 -> "5" [] n = 6 -> "6" [] n = 7 -> "7" [] n = 8 -> "8" [] n = 9 -> "9"

\* The j-th house of a chart; its id converts to an integer unless j = bad.
LibHouse(j, bad) ==
    [id |-> IF j = bad THEN <<"I">> ELSE <<DigitChar(j)>>,
     dms |-> ToString(30 * j),
     sign |-> IF j % 2 = 1 THEN "Aries" ELSE "Taurus",
     declination_dms |-> IF j % 2 = 1 THEN Some("+01d00") ELSE None,
     absolute_dms |-> IF j % 2 = 1 THEN None ELSE Some(ToString(30 * j))]

ElementDist == [type |-> "dict", items |-> <<<<"Fire", 2>>, <<"Water", 5>>, <<"Air", 2>>, <<"Earth", 1>>>>]

ModalityDist == [type |-> "dict", items |-> <<<<"Cardinal", 3>>, <<"Fixed", 3>>, <<"Mutable", 4>>>>]

\* A value json.dumps cannot serialize.
OpaqueDist == [type |-> "object"]

AspectCounts == {0, MaxTextAspects, MaxAspects}

Charts ==
    { [sunMissing |-> sm,
       moonMissing |-> mm,
       aspects |-> [i \in 1..n |-> LibAspect(i)],
       houses |-> [j \in 1..h |-> LibHouse(j, b)],
       element_distribution |-> ElementDist,
       modality_distribution |-> md] :
        sm \in BOOLEAN, mm \in BOOLEAN, n \in AspectCounts,
        h \in 0..MaxHouses, b \in 0..MaxHouses, md \in {ModalityDist, OpaqueDist} }

----------------------------------------------------------------------------
(* _safe_get_body and _to_summary *)

\* int(getattr(x, attr)) inside try/except: Some(n), or None when it raises
IntOrNone(token) ==
    IF ParseNumber(token).ok THEN Some(ParseNumber(token).val) ELSE None

BodyOut(body) ==
    [cls |-> "BodyOut",
     name |-> body.name,
     signed_dms |-> IF body.signed_dms # "" THEN body.signed_dms ELSE body.dms,
     house |-> IntOrNone(body.house),
     declination_dms |-> body.declination_dms,
     absolute_dms |-> body.absolute_dms]

\* faulty variant: an empty BodyOut instead of None for a missing body
safe_get_body_placeholder(c, name) ==
    IF (name = "Sun" /\ c.sunMissing) \/ (name = "Moon" /\ c.moonMissing)
    THEN Some([cls |-> "BodyOut", name |-> name, signed_dms |-> "", house |-> None,
               declination_dms |-> None, absolute_dms |-> None])
    ELSE Some(BodyOut(LibBody(name)))

\* get_body_by_name raises for a missing body; the handler turns that into None
safe_get_body(c, name) ==
    IF (name = "Sun" /\ c.sunMissing) \/ (name = "Moon" /\ c.moonMissing)
    THEN None
    ELSE Some(BodyOut(LibBody(name)))

AspectOut(asp) ==
    [cls |-> "AspectOut", body1 |-> asp.body1, symbol |-> asp.symbol, body2 |-> asp.body2, orb |-> asp.orb_str]

HouseOut(h) ==
    [cls |-> "HouseOut",
     id |-> ParseNumber(h.id).val,
     dms |-> h.dms,
     sign |-> h.sign,
     declination_dms |-> h.declination_dms,
     absolute_dms |-> h.absolute_dms]

\* faulty variant: a house whose id does not convert is skipped
HousesOutSkippingBad(hs) ==
    LET good == SelectSeq(hs, LAMBDA h : ParseNumber(h.id).ok)
    IN  [ok |-> TRUE, val |-> [j \in 1..Len(good) |-> HouseOut(good[j])]]

\* the loop over chart.houses: int(h.id) raises for the first house whose id
\* does not convert, and nothing catches it inside _to_summary
HousesOut(hs) ==
    IF \A j \in 1..Len(hs) : ParseNumber(hs[j].id).ok
    THEN [ok |-> TRUE, val |-> [j \in 1..Len(hs) |-> HouseOut(hs[j])]]
    ELSE [ok |-> FALSE, val |-> <<>>]

Location(i) == [lat |-> i.lat, lon |-> i.lon]

\* [ok, val]: ok is FALSE when _to_summary raises
to_summary(c, i, iso) ==
    LET hs == HousesOut(c.houses)
    IN  [ok |-> hs.ok,
         val |-> [cls |-> "ChartSummaryOut",
                  person |-> i.person,
                  dt_utc_iso |-> iso,
                  location |-> Location(i),
                  sun |-> safe_get_body(c, "Sun"),
                  moon |-> safe_get_body(c, "Moon"),
                  aspects |-> [k \in 1..Len(c.aspects) |-> AspectOut(c.aspects[k])],
                  element_distribution |-> c.element_distribution,
                  modality_distribution |-> c.modality_distribution,
                  houses |-> hs.val]]

----------------------------------------------------------------------------
(* _print_text: the lines it prints, each [src, k, v] *)

TextLine(kind, value) == [src |-> "text", k |-> kind, v |-> value]

\* "if x.declination_dms:" on an Optional[str]
TruthyStr(o) == ~IsNone(o) /\ Get(o) # ""

\* f"House {house}" / "House ?"
HouseStr(house) == IF IsNone(house) THEN "House ?" ELSE "House " \o ToString(Get(house))

BodyLines(label, body) ==
    IF IsNone(body) THEN <<>>
    ELSE <<TextLine(label, <<Get(body).signed_dms, HouseStr(Get(body).house)>>)>>
         \o (IF TruthyStr(Get(body).declination_dms)
             THEN <<TextLine("decl", Get(body).declination_dms)>>
             ELSE <<>>)

\* sorted(items, key=score, reverse=True): stable, largest count first
RECURSIVE SortedDesc(_)
SortedDesc(items) ==
    IF items = <<>> THEN <<>>
    ELSE LET m == CHOOSE i \in 1..Len(items) :
                    /\ \A j \in 1..Len(items) : items[j][2] <= items[i][2]
                    /\ \A j \in 1..(i - 1) : items[j][2] < items[i][2]
             rest == [j \in 1..(Len(items) - 1) |-> IF j < m THEN items[j] ELSE items[j + 1]]
         IN  <<items[m]>> \o SortedDesc(rest)

DistLine(label, dist) ==
    IF dist.type = "dict"
    THEN TextLine("dist", <<label, SortedDesc(dist.items)>>)
    ELSE TextLine("dist", <<label, dist.type>>)

Min(a, b) == IF a < b THEN a ELSE b

\* faulty variant: summary.aspects[:49]
TextAspectsOffByOne(aspects) == SubSeq(aspects, 1, Min(Len(aspects), MaxTextAspects - 1))

\* summary.aspects[:50]
TextAspects(aspects) == SubSeq(aspects, 1, Min(Len(aspects), MaxTextAspects))

AspectLine(a) == TextLine("aspect", <<a.body1, a.symbol, a.body2, a.orb>>)

HouseLine(h) ==
    TextLine("house", <<h.id, h.dms, h.sign,
                        IF TruthyStr(h.declination_dms) THEN h.declination_dms ELSE None>>)

print_text(s) ==
    <<TextLine("Person", s.person),
      TextLine("UTC", s.dt_utc_iso),
      TextLine("Loc", <<s.location.lat, s.location.lon>>),
      TextLine("blank", "")>>
    \o BodyLines("Sun", s.sun)
    \o BodyLines("Moon", s.moon)
    \o <<TextLine("blank", ""),
         TextLine("Distributions", ""),
         DistLine("element", s.element_distribution),
         DistLine("modality", s.modality_distribution),
         TextLine("blank", ""),
         TextLine("Aspects", "")>>
    \o [k \in 1..Len(TextAspects(s.aspects)) |-> AspectLine(TextAspects(s.aspects)[k])]
    \o <<TextLine("blank", ""),
         TextLine("Houses", "")>>
    \o [k \in 1..Len(s.houses) |-> HouseLine(s.houses[k])]

----------------------------------------------------------------------------
(* _to_jsonable and json.dumps *)

\* asdict(summary): the dataclass and the dataclasses nested in it become dicts
\* with the fields' names as keys; a None stays None
DictOf(obj) == [f \in DOMAIN obj \ {"cls"} |-> obj[f]]

\* faulty variant: only the top-level dataclass becomes a dict
to_jsonable_shallow(s) == DictOf(s)

to_jsonable(s) ==
    [DictOf(s) EXCEPT
        !.sun = IF IsNone(s.sun) THEN None ELSE Some(DictOf(Get(s.sun))),
        !.moon = IF IsNone(s.moon) THEN None ELSE Some(DictOf(Get(s.moon))),
        !.aspects = [k \in 1..Len(s.aspects) |-> DictOf(s.aspects[k])],
        !.houses = [k \in 1..Len(s.houses) |-> DictOf(s.houses[k])]]

\* whether json.dumps accepts the payload
Serializable(payload) ==
    /\ payload.element_distribution.type \in {"dict", "NoneType"}
    /\ payload.modality_distribution.type \in {"dict", "NoneType"}

JsonLine(payload) == [src |-> "json", k |-> "json", v |-> payload]

\* faulty variant: 'both' does not print the text
WantsTextOnlyText(fmt) == fmt = "text"

WantsText(fmt) == fmt \in {"text", "both"}

WantsJson(fmt) == fmt \in {"json", "both"}

----------------------------------------------------------------------------
(* The command lines and the environment of the model *)

TzInputs ==
    { <<"+", "0", "0", ":", "0", "0">>,
      <<"-", "2", "3", ":", "5", "9">>,
      <<" ", "-", "1", "9", ":", "3", "0", "\n">>,
      <<>>,
      <<"+", "2", "4", ":", "0", "0">>,
      <<"-", "2", "4", ":", "0", "0">>,
      <<"+", "0", "5", ":", "6", "0">>,
      <<"+", "5", ":", "3", "0">>,
      <<"0", "5", ":", "3", "0">>,
      <<"+", "0", "5", ".", "3", "0">>,
      <<"+", "0", "5", ":", "3", "0", "0">>,
      <<"-", "2">>,
      <<"-", "0", " ", ":", "3", "0">> }

PersonInputs == { None, Some(<<" ", "A", "d", "a", " ">>) }

LatInputs == { <<"4", "1">>, <<"n", "o">> }

LonInputs == { <<"-", "3">>, <<"e">> }

FormatInputs == { None, Some("text"), Some("json"), Some("both"), Some("xml") }

EpheInputs == { None, Some(<<>>), Some(<<" ">>), Some(<<" ", "p", " ">>) }

EnvValues == { None, Some(<<" ">>), Some(<<" ", "e", " ">>) }

Argvs ==
    [person : PersonInputs, birth : {"1990-05-17 14:30"}, tz : TzInputs,
     tzForm : {"sep", "eq"}, lat : LatInputs, lon : LonInputs,
     format : FormatInputs, ephe : EpheInputs]

Init ==
    /\ argv \in Argvs
    /\ pc = "parse_args"
    /\ inp = None
    /\ environ = None
    /\ epheDirOk = None
    /\ ephe_path = None
    /\ chart = None
    /\ chartArgs = None
    /\ dt_utc_iso = None
    /\ summary = None
    /\ trace = <<>>
    /\ failedAt = "none"
    /\ stdout = <<>>
    /\ stderr = <<>>
    /\ exitCode = None
    /\ exitVia = "running"

----------------------------------------------------------------------------
(* main, step by step *)

\* an exception raised at `step` and caught by main's "except Exception"
Raise(step) ==
    /\ failedAt' = step
    /\ pc' = "except"

\* line 272: inp = _parse_args(argv)
ParseArgs ==
    /\ pc = "parse_args"
    /\ trace' = Append(trace, "parse_args")
    /\ LET out == ArgparseOutcome(argv)
       IN  \/ /\ out.kind = "error"
              \* parser.error: usage and message, then SystemExit(2), which
              \* "except Exception" does not catch
              /\ stderr' = stderr \o <<"usage", "error">>
              /\ exitCode' = Some(2)
              /\ exitVia' = "SystemExit"
              /\ failedAt' = "parse_args"
              /\ pc' = "done"
              /\ UNCHANGED inp
           \/ /\ out.kind = "ok"
              /\ ~TZ_RE_match(Strip(out.ns.tz))
              /\ Raise("parse_args")
              /\ UNCHANGED <<inp, stderr, exitCode, exitVia>>
           \/ /\ out.kind = "ok"
              /\ TZ_RE_match(Strip(out.ns.tz))
              /\ inp' = Some(PluginInput(out.ns))
              /\ pc' = "to_utc"
              /\ UNCHANGED <<failedAt, stderr, exitCode, exitVia>>
    /\ UNCHANGED <<argv, environ, epheDirOk, ephe_path, chart, chartArgs, dt_utc_iso,
                   summary, stdout>>

\* line 143-144: dt_utc = to_utc(inp.birth, inp.tz)
ToUtc ==
    /\ pc = "to_utc"
    /\ trace' = Append(trace, "to_utc")
    /\ \/ /\ Raise("to_utc")
          /\ UNCHANGED dt_utc_iso
       \/ /\ dt_utc_iso' = Some("1990-05-17T12:30:00+00:00")
          /\ pc' = "resolve_ephe_path"
          /\ UNCHANGED failedAt
    /\ UNCHANGED <<argv, inp, environ, epheDirOk, ephe_path, chart, chartArgs, summary,
                   stdout, stderr, exitCode, exitVia>>

\* line 146: ephe_path = _resolve_ephe_path(inp.ephe_path); the environment and
\* the file system are read only as far as the function gets
ResolveEphePath ==
    /\ pc = "resolve_ephe_path"
    /\ trace' = Append(trace, "resolve_ephe_path")
    /\ LET explicit == Get(inp).ephe_path
       IN  \/ /\ Truthy(explicit)
              /\ ephe_path' = resolve_ephe_path(explicit, None, FALSE)
              /\ UNCHANGED <<environ, epheDirOk>>
           \/ /\ ~Truthy(explicit)
              /\ \E e \in EnvValues :
                    /\ EnvUsable(e)
                    /\ environ' = Some(e)
                    /\ ephe_path' = resolve_ephe_path(explicit, e, FALSE)
              /\ UNCHANGED epheDirOk
           \/ /\ ~Truthy(explicit)
              /\ \E e \in EnvValues, d \in BOOLEAN :
                    /\ ~EnvUsable(e)
                    /\ environ' = Some(e)
                    /\ epheDirOk' = Some(d)
                    /\ ephe_path' = resolve_ephe_path(explicit, e, d)
    /\ pc' = "create_orb_config"
    /\ UNCHANGED <<argv, inp, chart, chartArgs, dt_utc_iso, summary, failedAt,
                   stdout, stderr, exitCode, exitVia>>

\* line 147: orb_cfg = create_orb_config(inp.house_system)
CreateOrbConfig ==
    /\ pc = "create_orb_config"
    /\ trace' = Append(trace, "create_orb_config")
    /\ \/ Raise("create_orb_config")
       \/ /\ pc' = "NatalChart"
          /\ UNCHANGED failedAt
    /\ UNCHANGED <<argv, inp, environ, epheDirOk, ephe_path, chart, chartArgs, dt_utc_iso,
                   summary, stdout, stderr, exitCode, exitVia>>

\* line 149-157: chart = NatalChart(...)
NatalChartCall ==
    /\ pc = "NatalChart"
    /\ trace' = Append(trace, "NatalChart")
    /\ chartArgs' = Some([person_name |-> Get(inp).person,
                          dt_utc |-> Get(dt_utc_iso),
                          lat |-> Get(inp).lat,
                          lon |-> Get(inp).lon,
                          \* create_orb_config's result, named by its argument
                          orb_config |-> Get(inp).house_system,
                          ephe_path |-> ephe_path])
    /\ \/ /\ Raise("NatalChart")
          /\ UNCHANGED chart
       \/ /\ \E c \in Charts : chart' = Some(c)
          /\ pc' = "to_summary"
          /\ UNCHANGED failedAt
    /\ UNCHANGED <<argv, inp, environ, epheDirOk, ephe_path, dt_utc_iso, summary,
                   stdout, stderr, exitCode, exitVia>>

\* line 274: summary = _to_summary(chart, inp, dt_utc_iso)
ToSummary ==
    /\ pc = "to_summary"
    /\ trace' = Append(trace, "to_summary")
    /\ LET r == to_summary(Get(chart), Get(inp), Get(dt_utc_iso))
       IN  \/ /\ ~r.ok
              /\ Raise("to_summary")
              /\ UNCHANGED summary
           \/ /\ r.ok
              /\ summary' = Some(r.val)
              /\ pc' = "print_text"
              /\ UNCHANGED failedAt
    /\ UNCHANGED <<argv, inp, environ, epheDirOk, ephe_path, chart, chartArgs, dt_utc_iso,
                   stdout, stderr, exitCode, exitVia>>

\* line 276-277
PrintText ==
    /\ pc = "print_text"
    /\ \/ /\ WantsText(Get(inp).output_format)
          /\ trace' = Append(trace, "print_text")
          /\ stdout' = stdout \o print_text(Get(summary))
       \/ /\ ~WantsText(Get(inp).output_format)
          /\ UNCHANGED <<trace, stdout>>
    /\ pc' = "print_json"
    /\ UNCHANGED <<argv, inp, environ, epheDirOk, ephe_path, chart, chartArgs, dt_utc_iso,
                   summary, failedAt, stderr, exitCode, exitVia>>

\* line 279-281
PrintJson ==
    /\ pc = "print_json"
    /\ \/ /\ WantsJson(Get(inp).output_format)
          /\ trace' = Append(trace, "print_json")
          /\ LET payload == to_jsonable(Get(summary))
             IN  \/ /\ Serializable(payload)
                    /\ stdout' = Append(stdout, JsonLine(payload))
                    /\ pc' = "return"
                    /\ UNCHANGED failedAt
                 \/ /\ ~Serializable(payload)
                    /\ Raise("print_json")
                    /\ UNCHANGED stdout
       \/ /\ ~WantsJson(Get(inp).output_format)
          /\ pc' = "return"
          /\ UNCHANGED <<trace, stdout, failedAt>>
    /\ UNCHANGED <<argv, inp, environ, epheDirOk, ephe_path, chart, chartArgs, dt_utc_iso,
                   summary, stderr, exitCode, exitVia>>

\* line 283: return 0
Return0 ==
    /\ pc = "return"
    /\ exitCode' = Some(0)
    /\ exitVia' = "return"
    /\ pc' = "done"
    /\ UNCHANGED <<argv, inp, environ, epheDirOk, ephe_path, chart, chartArgs, dt_utc_iso,
                   summary, trace, failedAt, stdout, stderr>>

\* line 284-286: the handler prints one line and returns 1
Except ==
    /\ pc = "except"
    /\ stderr' = Append(stderr, "[nataly plugin] Error")
    /\ exitCode' = Some(1)
    /\ exitVia' = "return"
    /\ pc' = "done"
    /\ UNCHANGED <<argv, inp, environ, epheDirOk, ephe_path, chart, chartArgs, dt_utc_iso,
                   summary, trace, failedAt, stdout>>

Next ==
    \/ ParseArgs
    \/ ToUtc
    \/ ResolveEphePath
    \/ CreateOrbConfig
    \/ NatalChartCall
    \/ ToSummary
    \/ PrintText
    \/ PrintJson
    \/ Return0
    \/ Except

Spec == Init /\ [][Next]_vars

----------------------------------------------------------------------------
(* Vocabulary of the properties *)

Done == pc = "done"

\* the format in force: 'text' when --format is omitted
EffFormat == IF IsNone(argv.format) THEN "text" ELSE Get(argv.format)

TextPart == SelectSeq(stdout, LAMBDA l : l.src = "text")

JsonPart == SelectSeq(stdout, LAMBDA l : l.src = "json")

LinesOf(kind) == SelectSeq(stdout, LAMBDA l : l.src = "text" /\ l.k = kind)

LibCalls == {"to_utc", "create_orb_config", "NatalChart"}

Entered(step) == \E i \in 1..Len(trace) : trace[i] = step

Before(a, i) == \E j \in 1..(i - 1) : trace[j] = a

\* sign, hours 00-23, colon, minutes 00-59
WellFormedOffset(s) ==
    /\ Len(s) = 6
    /\ s[1] \in {"+", "-"}
    /\ s[2] \in Digits /\ s[3] \in Digits /\ 10 * DigitVal(s[2]) + DigitVal(s[3]) <= 23
    /\ s[4] = ":"
    /\ s[5] \in Digits /\ s[6] \in Digits /\ 10 * DigitVal(s[5]) + DigitVal(s[6]) <= 59

BlankText(s) == \A i \in 1..Len(s) : s[i] \in Whitespace

\* every flag other than --tz is present and well formed
OtherFlagsFine ==
    /\ ~IsNone(argv.person)
    /\ argv.lat = <<"4", "1">>
    /\ argv.lon = <<"-", "3">>
    /\ EffFormat \in {"text", "json", "both"}

SummaryKeys ==
    {"person", "dt_utc_iso", "location", "sun", "moon", "aspects",
     "element_distribution", "modality_distribution", "houses"}

BodyKeys == {"name", "signed_dms", "house", "declination_dms", "absolute_dms"}

AspectKeys == {"body1", "symbol", "body2", "orb"}

HouseKeys == {"id", "dms", "sign", "declination_dms", "absolute_dms"}

----------------------------------------------------------------------------
(* C1 *)

\* C1 (as claimed): with the other flags fine, _parse_args accepts the --tz
\* value exactly when the stripped value is a well-formed offset, and for a
\* value that is not, main returns 1 with an error line on standard error and
\* no library call.
C1_TzAcceptedIffWellFormed ==
    (OtherFlagsFine /\ pc # "parse_args") =>
        /\ ~IsNone(inp) <=> WellFormedOffset(Strip(argv.tz))
        /\ (Done /\ ~WellFormedOffset(Strip(argv.tz))) =>
              /\ exitVia = "return"
              /\ exitCode = Some(1)
              /\ Len(stderr) >= 1
              /\ \A i \in 1..Len(trace) : trace[i] \notin LibCalls

----------------------------------------------------------------------------
(* C2 *)

\* C2 (as claimed): a finished invocation has exit code 0 when no step
\* failed and exit code 1, with a message on standard error, when one did;
\* no other exit code occurs.
C2_ExitCodeZeroOrOne ==
    Done =>
        \/ failedAt = "none" /\ exitCode = Some(0)
        \/ failedAt # "none" /\ exitCode = Some(1) /\ stderr # <<>>

----------------------------------------------------------------------------
(* C3 *)

AnyBodyMissing == ~IsNone(chart) /\ (Get(chart).sunMissing \/ Get(chart).moonMissing)

\* C3 (as claimed): a run whose chart cannot supply the Sun or the Moon ends
\* with one error line on standard error and exit code 1.
C3_MissingBodyFailsRun ==
    (Done /\ AnyBodyMissing) => (exitCode = Some(1) /\ Len(stderr) = 1)

\* C3 (amended): a missing body is no failure. The summary's sun (moon) is
\* None exactly when the chart cannot supply the Sun (Moon); _to_summary
\* raises only for a house id that does not convert; and a run that built its
\* summary ends with exit code 0 unless the JSON serialization fails.
C3_MissingBodyIsNone ==
    /\ ~IsNone(summary) =>
          /\ IsNone(Get(summary).sun) <=> Get(chart).sunMissing
          /\ IsNone(Get(summary).moon) <=> Get(chart).moonMissing
    /\ failedAt = "to_summary" =>
          \E j \in 1..Len(Get(chart).houses) : ~ParseNumber(Get(chart).houses[j].id).ok
    /\ (Done /\ ~IsNone(summary) /\ failedAt # "print_json") =>
          (exitCode = Some(0) /\ stderr = <<>>)

C3_Witness ==
    /\ Done
    /\ AnyBodyMissing
    /\ Get(chart).sunMissing
    /\ ~IsNone(summary)
    /\ IsNone(Get(summary).sun)
    /\ exitCode = Some(0)

----------------------------------------------------------------------------
(* C4 *)

ExplicitGiven == ~IsNone(argv.ephe) /\ ~BlankText(Get(argv.ephe))

EnvGiven == ~IsNone(environ) /\ ~IsNone(Get(environ)) /\ ~BlankText(Get(Get(environ)))

\* C4 (as claimed): NatalChart receives the stripped --ephe-path when it is
\* given and not blank, otherwise the stripped NATALY_EPHE_PATH when it is set
\* and not blank, otherwise, in every remaining case, the local ephe directory.
C4_LocalDirIsFinalFallback ==
    ~IsNone(chartArgs) =>
        Get(chartArgs).ephe_path =
            IF ExplicitGiven THEN Some(Strip(Get(argv.ephe)))
            ELSE IF EnvGiven THEN Some(Strip(Get(Get(environ))))
            ELSE Some(DefaultEpheDir)

\* C4 (amended): as claimed, except that the local ephe directory is used only
\* when it exists and is a directory; otherwise NatalChart receives None.
\* The environment is consulted only when --ephe-path is absent or blank, and
\* the directory only when the environment variable is unset or blank too.
C4_EphePathPrecedence ==
    /\ ~IsNone(chartArgs) =>
          Get(chartArgs).ephe_path =
              IF ExplicitGiven THEN Some(Strip(Get(argv.ephe)))
              ELSE IF EnvGiven THEN Some(Strip(Get(Get(environ))))
              ELSE IF Get(epheDirOk) THEN Some(DefaultEpheDir)
              ELSE None
    /\ ~IsNone(environ) => ~ExplicitGiven
    /\ ~IsNone(epheDirOk) => (~ExplicitGiven /\ ~EnvGiven)

C4_Witness ==
    /\ ~IsNone(chartArgs)
    /\ argv.ephe = Some(<<" ">>)
    /\ environ = Some(Some(<<" ">>))
    /\ epheDirOk = Some(FALSE)
    /\ Get(chartArgs).ephe_path = None

----------------------------------------------------------------------------
(* C5 *)

\* C5: when main returns 0, standard output holds the text rendering (from
\* its Person line to its Houses section, once) exactly when the format in
\* force is 'text' or 'both', holds one JSON object exactly when it is 'json'
\* or 'both', every text line precedes the JSON object, and an omitted
\* --format counts as 'text'.
C5_FormatSelectsOutput ==
    (Done /\ exitVia = "return" /\ exitCode = Some(0)) =>
        /\ EffFormat \in {"text", "both"} =>
              /\ Len(LinesOf("Person")) = 1
              /\ Len(LinesOf("Houses")) = 1
              /\ stdout[1].k = "Person"
        /\ EffFormat \notin {"text", "both"} => TextPart = <<>>
        /\ Len(JsonPart) = (IF EffFormat \in {"json", "both"} THEN 1 ELSE 0)
        /\ \A i, j \in 1..Len(stdout) :
              (stdout[i].src = "text" /\ stdout[j].src = "json") => i < j
        /\ Get(inp).output_format = EffFormat

C5_Witness ==
    /\ Done
    /\ exitCode = Some(0)
    /\ argv.format = Some("both")
    /\ Len(JsonPart) = 1
    /\ Len(TextPart) > 0
    /\ stdout[Len(stdout)].src = "json"

----------------------------------------------------------------------------
(* C6 *)

AspectTuple(a) == <<a.body1, a.symbol, a.body2, a.orb>>

HouseTuple(h) == <<h.id, h.dms, h.sign>>

\* what the text and the JSON object of one run agree on, the aspects apart
TextAgreesWithJson(j) ==
    /\ LinesOf("Person")[1].v = j.person
    /\ LinesOf("UTC")[1].v = j.dt_utc_iso
    /\ LinesOf("Loc")[1].v = <<j.location.lat, j.location.lon>>
    /\ Len(LinesOf("Sun")) = (IF IsNone(j.sun) THEN 0 ELSE 1)
    /\ Len(LinesOf("Moon")) = (IF IsNone(j.moon) THEN 0 ELSE 1)
    /\ ~IsNone(j.sun) => LinesOf("Sun")[1].v[1] = Get(j.sun).signed_dms
    /\ ~IsNone(j.moon) => LinesOf("Moon")[1].v[1] = Get(j.moon).signed_dms
    /\ Len(LinesOf("house")) = Len(j.houses)
    /\ \A k \in 1..Len(j.houses) :
          SubSeq(LinesOf("house")[k].v, 1, 3) = HouseTuple(j.houses[k])

BothPrinted == Done /\ exitCode = Some(0) /\ EffFormat = "both"

\* C6 (as claimed): with --format both, the text shows the person, the UTC
\* timestamp, the location, the Sun and the Moon exactly when the JSON object
\* has them, and every aspect and every house of the JSON object, in order.
C6_TextShowsEveryJsonAspect ==
    BothPrinted =>
        LET j == JsonPart[1].v
        IN  /\ TextAgreesWithJson(j)
            /\ Len(LinesOf("aspect")) = Len(j.aspects)
            /\ \A k \in 1..Len(j.aspects) :
                  LinesOf("aspect")[k].v = AspectTuple(j.aspects[k])

\* C6 (amended): as claimed, except that the text shows only the first 50
\* aspects of the JSON object, in order; later aspects are in the JSON alone.
C6_TextShowsFirst50JsonAspects ==
    BothPrinted =>
        LET j == JsonPart[1].v
            shown == Min(Len(j.aspects), 50)
        IN  /\ TextAgreesWithJson(j)
            /\ Len(LinesOf("aspect")) = shown
            /\ \A k \in 1..shown :
                  LinesOf("aspect")[k].v = AspectTuple(j.aspects[k])

C6_Witness ==
    /\ BothPrinted
    /\ Len(JsonPart[1].v.aspects) > 50
    /\ Len(LinesOf("aspect")) = 50
    /\ LinesOf("aspect")[50].v[4] = "50"

----------------------------------------------------------------------------
(* C7 *)

\* C7: every JSON object written has exactly the nine top-level keys;
\* location has exactly lat and lon, equal to the --lat and --lon given;
\* person is the stripped --person; sun and moon are null or objects with
\* exactly the body keys; every aspect and every house has exactly its keys;
\* and at most one JSON object is written.
C7_JsonShape ==
    /\ Len(JsonPart) <= 1
    /\ \A n \in 1..Len(JsonPart) :
          LET j == JsonPart[n].v
          IN  /\ DOMAIN j = SummaryKeys
              /\ DOMAIN j.location = {"lat", "lon"}
              /\ j.location.lat = ParseNumber(argv.lat).val
              /\ j.location.lon = ParseNumber(argv.lon).val
              /\ j.person = Strip(Get(argv.person))
              /\ IsNone(j.sun) \/ DOMAIN Get(j.sun) = BodyKeys
              /\ IsNone(j.moon) \/ DOMAIN Get(j.moon) = BodyKeys
              /\ \A k \in 1..Len(j.aspects) : DOMAIN j.aspects[k] = AspectKeys
              /\ \A k \in 1..Len(j.houses) : DOMAIN j.houses[k] = HouseKeys

C7_Witness ==
    /\ Len(JsonPart) = 1
    /\ IsNone(JsonPart[1].v.sun)
    /\ ~IsNone(JsonPart[1].v.moon)
    /\ Len(JsonPart[1].v.houses) = MaxHouses
    /\ Len(JsonPart[1].v.aspects) > 0
    /\ JsonPart[1].v.location = [lat |-> 41, lon |-> -3]

----------------------------------------------------------------------------
(* C8 *)

\* what the claim and its amendment share: no step is entered twice; a
\* library call happens only after argument parsing and the --tz validation
\* succeeded; the summary is built only after the chart was constructed; and
\* nothing is on standard output before the summary is complete.
PipelineBasics ==
    /\ \A i, j \in 1..Len(trace) : trace[i] = trace[j] => i = j
    /\ \A i \in 1..Len(trace) : i > 1 => Before("parse_args", i)
    /\ \A i \in 1..Len(trace) :
          trace[i] \in LibCalls =>
              (~IsNone(inp) /\ OtherFlagsFine /\ WellFormedOffset(Strip(argv.tz)))
    /\ \A i \in 1..Len(trace) :
          trace[i] = "to_summary" => (Before("NatalChart", i) /\ ~IsNone(chart))
    /\ \A i \in 1..Len(trace) :
          trace[i] \in {"print_text", "print_json"} =>
              (Before("to_summary", i) /\ ~IsNone(summary))
    /\ stdout # <<>> => ~IsNone(summary)

\* C8 (as claimed): the basics, and the ephemeris path and the orb
\* configuration are resolved before any library call is made.
C8_ConfigBeforeAnyLibraryCall ==
    /\ PipelineBasics
    /\ \A i \in 1..Len(trace) :
          trace[i] \in LibCalls =>
              /\ Before("resolve_ephe_path", i)
              /\ trace[i] = "create_orb_config" \/ Before("create_orb_config", i)

StepRank(step) ==
    CASE step = "parse_args" -> 1
      [] step = "to_utc" -> 2
      [] step = "resolve_ephe_path" -> 3
      [] step = "create_orb_config" -> 4
      [] step = "NatalChart" -> 5
      [] step = "to_summary" -> 6
      [] step = "print_text" -> 7
      [] step = "print_json" -> 8

\* C8 (amended): the basics, and the steps happen in the order parse args,
\* to_utc, resolve the ephemeris path, create_orb_config, NatalChart, build
\* the summary, print text, print JSON: the ephemeris path and the orb
\* configuration are resolved before the chart is constructed, but after the
\* library's to_utc was called.
C8_PipelineOrder ==
    /\ PipelineBasics
    /\ \A i, j \in 1..Len(trace) : i < j => StepRank(trace[i]) < StepRank(trace[j])
    /\ \A i \in 1..Len(trace) :
          trace[i] = "NatalChart" =>
              (Before("resolve_ephe_path", i) /\ Before("create_orb_config", i))
    /\ \A i \in 1..Len(trace) : trace[i] = "resolve_ephe_path" => Before("to_utc", i)

C8_Witness ==
    /\ Done
    /\ exitCode = Some(0)
    /\ trace = <<"parse_args", "to_utc", "resolve_ephe_path", "create_orb_config",
                 "NatalChart", "to_summary", "print_text", "print_json">>

----------------------------------------------------------------------------
(* C9 *)

\* C9 (as claimed): a run that fails in parsing, chart construction or
\* summary building leaves standard output empty and ends with exit code 1;
\* a run that fails in the JSON serialization leaves on standard output
\* exactly what was printed before (the complete text with 'both', nothing
\* with 'json'), writes exactly one error line and ends with exit code 1.
C9_PartialOutputAndExitOne ==
    Done =>
        /\ failedAt \in {"parse_args", "to_utc", "create_orb_config", "NatalChart",
                         "to_summary"} =>
              (stdout = <<>> /\ exitCode = Some(1))
        /\ failedAt = "print_json" =>
              /\ exitCode = Some(1)
              /\ Len(stderr) = 1
              /\ JsonPart = <<>>
              /\ EffFormat = "json" => stdout = <<>>
              /\ EffFormat = "both" =>
                    (Len(LinesOf("Person")) = 1 /\ Len(LinesOf("Houses")) = 1
                     /\ Len(LinesOf("house")) = Len(Get(summary).houses))

----------------------------------------------------------------------------
(* C10 *)

HouseIdsConvert(c) == \A j \in 1..Len(c.houses) : ParseNumber(c.houses[j].id).ok

\* C10: the summary's aspects and houses are the chart's, one for one and in
\* order; a chart with a house id that does not convert yields no summary and
\* the run ends with exit code 1 and nothing on standard output; the JSON
\* object holds all aspects and houses; the text holds the first 50 aspects,
\* in order, and all houses.
C10_SequencesPreserved ==
    /\ ~IsNone(summary) =>
          LET s == Get(summary)
              c == Get(chart)
          IN  /\ Len(s.aspects) = Len(c.aspects)
              /\ \A k \in 1..Len(c.aspects) :
                    AspectTuple(s.aspects[k]) =
                        <<c.aspects[k].body1, c.aspects[k].symbol, c.aspects[k].body2,
                          c.aspects[k].orb_str>>
              /\ Len(s.houses) = Len(c.houses)
              /\ \A k \in 1..Len(c.houses) :
                    /\ s.houses[k].dms = c.houses[k].dms
                    /\ s.houses[k].sign = c.houses[k].sign
                    /\ Some(s.houses[k].id) = IntOrNone(c.houses[k].id)
    /\ (Entered("to_summary") /\ pc # "to_summary" /\ ~HouseIdsConvert(Get(chart))) =>
          /\ IsNone(summary)
          /\ stdout = <<>>
          /\ Done => exitCode = Some(1)
    /\ \A n \in 1..Len(JsonPart) :
          /\ Len(JsonPart[n].v.aspects) = Len(Get(chart).aspects)
          /\ \A k \in 1..Len(Get(chart).aspects) :
                JsonPart[n].v.aspects[k].orb = Get(chart).aspects[k].orb_str
          /\ Len(JsonPart[n].v.houses) = Len(Get(chart).houses)
          /\ \A k \in 1..Len(Get(chart).houses) :
                JsonPart[n].v.houses[k].dms = Get(chart).houses[k].dms
    /\ TextPart # <<>> =>
          /\ Len(LinesOf("aspect")) = Min(Len(Get(chart).aspects), 50)
          /\ \A k \in 1..Len(LinesOf("aspect")) :
                LinesOf("aspect")[k].v[4] = Get(chart).aspects[k].orb_str
          /\ Len(LinesOf("house")) = Len(Get(chart).houses)
          /\ \A k \in 1..Len(Get(chart).houses) :
                LinesOf("house")[k].v[2] = Get(chart).houses[k].dms

C10_Witness ==
    /\ Done
    /\ exitCode = Some(0)
    /\ Len(Get(chart).aspects) = MaxAspects
    /\ Len(Get(chart).houses) = MaxHouses
    /\ Len(JsonPart) = 1
    /\ Len(JsonPart[1].v.aspects) = MaxAspects
    /\ Len(LinesOf("house")) = MaxHouses
    /\ Len(LinesOf("aspect")) = 50

====
